---------------------------- MODULE Spec2Model ----------------------------
(***************************************************************************)
(* Conversation persistence and session lifecycle of the cs chat           *)
(* assistant: the ConversationRepository over the two SQLite tables        *)
(* (sessions, conversations) and MessageHandler.send_message on top of it. *)
(*                                                                         *)
(* Text values (str) are sequences of one-character strings, so that       *)
(* strip/split/replace/len are computed as Python computes them.  The      *)
(* Python value None of an Optional[str] is the one-element sequence None, *)
(* which is no text.  An Optional[int] or Optional[Session] is <<>> for    *)
(* None and <<v>> for the value v.                                         *)
(***************************************************************************)
EXTENDS Integers, Sequences, FiniteSets, TLC

VARIABLES
    sessions,       \* table sessions: session_id -> row
    conversations,  \* table conversations: set of rows
    seq,            \* sqlite_sequence of conversations (last AUTOINCREMENT id)
    now,            \* CURRENT_TIMESTAMP, whole seconds
    last,           \* the repository call that returned last, with its outcome
    appended,       \* per session: successful add_message calls since the row was created
    pc,             \* per caller: where its send_message call stands
    call,           \* per caller: the locals of its send_message call
    txn,            \* per connection: its open transaction, if any
    current_session_id  \* ChatApplication.current_session_id, None before it is built

vars == <<sessions, conversations, seq, now, last, appended, pc, call, txn, current_session_id>>

---------------------------------------------------------------------------
(* Bounds of the model *)

MaxId == 2          \* message rows ever inserted
MaxClock == 1       \* seconds the clock advances
MaxExchanges == 2   \* send_message calls that reach the store
MaxFragments == 1   \* fragments of one response stream
NumCallers == 2     \* callers of send_message
MaxTitleLen == 52    \* characters of a title response
MaxHistory == 101    \* messages a session holds before a call

---------------------------------------------------------------------------
(* Values *)

None == <<"None">>
S1 == <<"s", "1">>
S2 == <<"s", "2">>
SessionIds == {S1, S2}
Hi == <<"h", "i">>
Ok == <<"o", "k">>
Title == <<"T">>
Roles == {<<"user">>, <<"assistant">>}

DefaultLimit == 100
PreviewLimit == 3
PreviewWidth == 80

\* Python truthiness of an Optional[str]: None and "" are falsy
Truthy(x) == x # None /\ x # <<>>

IsSpace(ch) == ch = " "

RECURSIVE lstrip(_)
lstrip(s) ==
    IF s # <<>> /\ IsSpace(Head(s)) THEN lstrip(Tail(s)) ELSE s

RECURSIVE rstrip(_)
rstrip(s) ==
    IF s # <<>> /\ IsSpace(s[Len(s)]) THEN rstrip(SubSeq(s, 1, Len(s) - 1)) ELSE s

\* str.strip()
strip(s) == rstrip(lstrip(s))

\* the index of the first whitespace of s, Len(s) + 1 when it has none
RECURSIVE FirstSpace(_, _)
FirstSpace(s, i) ==
    IF i > Len(s) \/ IsSpace(s[i]) THEN i ELSE FirstSpace(s, i + 1)

\* str.split(): the whitespace-separated words
RECURSIVE split(_)
split(s) ==
    LET t == lstrip(s)
        n == FirstSpace(t, 1)
    IN  IF t = <<>> THEN <<>>
        ELSE <<SubSeq(t, 1, n - 1)>> \o split(SubSeq(t, n, Len(t)))

\* " ".join(words)
RECURSIVE join(_)
join(words) ==
    IF words = <<>> THEN <<>>
    ELSE IF Len(words) = 1 THEN words[1]
    ELSE words[1] \o <<" ">> \o join(Tail(words))

\* s.replace('"', '').replace("'", "")
StripQuotes(s) == SelectSeq(s, LAMBDA ch : ch \notin {"\"", "'"})

Ellipsis == <<".", ".", ".">>
NewConversation ==
    <<"N", "e", "w", " ", "C", "o", "n", "v", "e", "r", "s", "a", "t", "i", "o", "n">>

---------------------------------------------------------------------------
(* Storage: what the SQL statements compute *)

\* conversations rows of one session
\* mutant: the WHERE session_id = ? is missing
RowsOfAnySession(session_id) == conversations

RowsOf(session_id) == {r \in conversations : r.session_id = session_id}

\* mutant: rows of one timestamp come newest first
BeforeNewestFirst(r, q) ==
    \/ r.timestamp < q.timestamp
    \/ r.timestamp = q.timestamp /\ r.id > q.id

\* ORDER BY timestamp ASC, served by idx_session_timestamp(session_id,
\* timestamp), whose entries are ordered by (session_id, timestamp, rowid)
Before(r, q) ==
    \/ r.timestamp < q.timestamp
    \/ r.timestamp = q.timestamp /\ r.id < q.id

\* the rows in the order of Before (built around the middle row, which
\* keeps the recursion shallow for a long history)
RECURSIVE OrderByTimestamp(_)
OrderByTimestamp(rows) ==
    IF rows = {} THEN <<>>
    ELSE LET r == CHOOSE r \in rows :
                     Cardinality({q \in rows : Before(q, r)}) = Cardinality(rows) \div 2
         IN  OrderByTimestamp({q \in rows : Before(q, r)})
             \o <<r>>
             \o OrderByTimestamp({q \in rows : Before(r, q)})

\* mutant: the newest n rows
LimitNewest(rows, n) ==
    IF n < 0 \/ n >= Len(rows) THEN rows
    ELSE SubSeq(rows, Len(rows) - n + 1, Len(rows))

\* LIMIT ?  (a negative LIMIT is no limit in SQLite)
Limit(rows, n) ==
    IF n < 0 \/ n >= Len(rows) THEN rows ELSE SubSeq(rows, 1, n)

\* mutant: INSERT OR REPLACE
InsertOrReplaceSession(tbl, session_id, session_name) ==
    [s \in DOMAIN tbl \cup {session_id} |->
        IF s = session_id
        THEN [session_name |-> session_name, created_at |-> now, updated_at |-> now]
        ELSE tbl[s]]

\* INSERT OR IGNORE INTO sessions (session_id, session_name)
InsertOrIgnoreSession(tbl, session_id, session_name) ==
    IF session_id \in DOMAIN tbl THEN tbl
    ELSE [s \in DOMAIN tbl \cup {session_id} |->
            IF s = session_id
            THEN [session_name |-> session_name, created_at |-> now, updated_at |-> now]
            ELSE tbl[s]]

\* mutant: the sessions row is not deleted
DeleteNoSession(tbl, session_id) == tbl

\* DELETE FROM sessions WHERE session_id = ?
DeleteSession(tbl, session_id) ==
    [s \in DOMAIN tbl \ {session_id} |-> tbl[s]]

\* mutant: the DELETE has no WHERE clause
DeleteAllConversations(rows, session_id) == {}

\* DELETE FROM conversations WHERE session_id = ?
DeleteConversations(rows, session_id) ==
    {r \in rows : r.session_id # session_id}

\* PRAGMA foreign_keys = ON with FOREIGN KEY (session_id) REFERENCES sessions
ForeignKeysHold(tbl, rows) ==
    \A r \in rows : r.session_id \in DOMAIN tbl

\* what a repository call did: its arguments, the exception it raised or
\* "ok", and whether its INSERT OR IGNORE inserted a sessions row
Returned(op, args, result, inserted) ==
    [op |-> op, args |-> args, result |-> result, inserted |-> inserted]

---------------------------------------------------------------------------
(* ConversationRepository: reads *)

\* mutant: the stored session_name is returned as it is, without "or row[0]"
get_session_info_no_default(session_id) ==
    IF ~Truthy(session_id) THEN <<>>
    ELSE IF session_id \in DOMAIN sessions
    THEN << [session_id |-> session_id,
             session_name |-> sessions[session_id].session_name,
             created_at |-> sessions[session_id].created_at,
             updated_at |-> sessions[session_id].updated_at] >>
    ELSE <<>>

get_session_info(session_id) ==
    IF ~Truthy(session_id) THEN <<>>
    ELSE IF session_id \in DOMAIN sessions
    THEN LET row == sessions[session_id]
         IN  << [session_id |-> session_id,
                 session_name |-> IF Truthy(row.session_name)
                                  THEN row.session_name ELSE session_id,
                 created_at |-> row.created_at,
                 updated_at |-> row.updated_at] >>
    ELSE <<>>

\* limit is <<>> for None and <<n>> for the integer n
get_conversation_history(session_id, limit) ==
    IF ~Truthy(session_id) THEN <<>>
    ELSE LET rows == OrderByTimestamp(RowsOf(session_id))
             cut == IF limit # <<>> /\ limit[1] # 0
                    THEN Limit(rows, limit[1]) ELSE rows
         IN  [i \in 1..Len(cut) |->
                [role |-> cut[i].role, content |-> cut[i].content,
                 timestamp |-> cut[i].timestamp]]

\* the message_count column of get_all_sessions: COUNT(c.id) of the LEFT JOIN
message_count(session_id) == Cardinality(RowsOf(session_id))

\* ORDER BY s.created_at DESC; the rows of one created_at come in no set order
get_all_sessions ==
    {[session_id |-> s,
      session_name |-> IF Truthy(sessions[s].session_name)
                       THEN sessions[s].session_name ELSE s,
      created_at |-> sessions[s].created_at,
      updated_at |-> sessions[s].updated_at,
      message_count |-> message_count(s)] : s \in DOMAIN sessions}

---------------------------------------------------------------------------
(* ConversationRepository: writes.  Each runs in one connection and either *)
(* commits all of its statements or, on an sqlite3.Error, rolls back.      *)

create_session(session_id, session_name) ==
    IF ~Truthy(session_id) \/ ~Truthy(strip(session_id))
    THEN /\ last' = Returned("create_session", <<session_id, session_name>>,
                             "ValueError", FALSE)
         /\ UNCHANGED <<sessions, conversations, seq, appended>>
    ELSE /\ sessions' = InsertOrIgnoreSession(sessions, session_id, session_name)
         /\ appended' = IF session_id \in DOMAIN sessions THEN appended
                        ELSE [appended EXCEPT ![session_id] = 0]
         /\ last' = Returned("create_session", <<session_id, session_name>>,
                             "ok", session_id \notin DOMAIN sessions)
         /\ UNCHANGED <<conversations, seq>>

\* mutant: the UPDATE has no WHERE clause
update_every_session_name(session_id, session_name) ==
    IF ~Truthy(session_id) \/ ~Truthy(session_name)
    THEN /\ last' = Returned("update_session_name", <<session_id, session_name>>,
                             "ValueError", FALSE)
         /\ UNCHANGED <<sessions, conversations, seq, appended>>
    ELSE /\ sessions' = [s \in DOMAIN sessions |->
                            [sessions[s] EXCEPT !.session_name = session_name,
                                                !.updated_at = now]]
         /\ last' = Returned("update_session_name", <<session_id, session_name>>,
                             "ok", FALSE)
         /\ UNCHANGED <<conversations, seq, appended>>

update_session_name(session_id, session_name) ==
    IF ~Truthy(session_id) \/ ~Truthy(session_name)
    THEN /\ last' = Returned("update_session_name", <<session_id, session_name>>,
                             "ValueError", FALSE)
         /\ UNCHANGED <<sessions, conversations, seq, appended>>
    ELSE /\ sessions' = [s \in DOMAIN sessions |->
                            IF s = session_id
                            THEN [sessions[s] EXCEPT !.session_name = session_name,
                                                     !.updated_at = now]
                            ELSE sessions[s]]
         /\ last' = Returned("update_session_name", <<session_id, session_name>>,
                             "ok", FALSE)
         /\ UNCHANGED <<conversations, seq, appended>>

\* the statements of add_message's connection, in order: the tables they leave
\* mutant: id INTEGER PRIMARY KEY without AUTOINCREMENT, which reuses ids
AddMessageStatementsRowid(session_id, role, content) ==
    [sessions |-> InsertOrIgnoreSession(sessions, session_id, None),
     conversations |-> conversations \cup
            {[id |-> IF conversations = {} THEN 1
                     ELSE 1 + CHOOSE n \in {r.id : r \in conversations} :
                                 \A r \in conversations : r.id <= n,
              session_id |-> session_id, role |-> role,
              content |-> content, timestamp |-> now]}]

AddMessageStatements(session_id, role, content) ==
    [sessions |-> InsertOrIgnoreSession(sessions, session_id, None),
     conversations |-> conversations \cup
            {[id |-> seq + 1, session_id |-> session_id, role |-> role,
              content |-> content, timestamp |-> now]}]

\* mutant: "not content" in place of "content is None"
add_message_rejects_empty(session_id, role, content) ==
    IF ~Truthy(session_id) \/ ~Truthy(role) \/ ~Truthy(content)
    THEN /\ last' = Returned("add_message", <<session_id, role, content>>,
                             "ValueError", FALSE)
         /\ UNCHANGED <<sessions, conversations, seq, appended>>
    ELSE LET db == AddMessageStatements(session_id, role, content)
         IN  IF role \in Roles /\ ForeignKeysHold(db.sessions, db.conversations)
             THEN /\ sessions' = db.sessions
                  /\ conversations' = db.conversations
                  /\ seq' = seq + 1
                  /\ appended' = [appended EXCEPT ![session_id] =
                                    IF session_id \in DOMAIN sessions THEN @ + 1 ELSE 1]
                  /\ last' = Returned("add_message", <<session_id, role, content>>,
                                      "ok", session_id \notin DOMAIN sessions)
             ELSE /\ last' = Returned("add_message", <<session_id, role, content>>,
                                      "IntegrityError", FALSE)
                  /\ UNCHANGED <<sessions, conversations, seq, appended>>

\* mutant: the arguments are not validated before the INSERTs
add_message_unvalidated(session_id, role, content) ==
    LET db == AddMessageStatements(session_id, role, content)
    IN  IF role \in Roles /\ ForeignKeysHold(db.sessions, db.conversations)
        THEN /\ sessions' = db.sessions
             /\ conversations' = db.conversations
             /\ seq' = seq + 1
             /\ appended' = [s \in SessionIds |->
                                IF s # session_id THEN appended[s]
                                ELSE IF s \in DOMAIN sessions THEN appended[s] + 1 ELSE 1]
             /\ last' = Returned("add_message", <<session_id, role, content>>,
                                 "ok", session_id \notin DOMAIN sessions)
        ELSE /\ last' = Returned("add_message", <<session_id, role, content>>,
                                 "IntegrityError", FALSE)
             /\ UNCHANGED <<sessions, conversations, seq, appended>>

add_message(session_id, role, content) ==
    IF ~Truthy(session_id) \/ ~Truthy(role) \/ content = None
    THEN /\ last' = Returned("add_message", <<session_id, role, content>>,
                             "ValueError", FALSE)
         /\ UNCHANGED <<sessions, conversations, seq, appended>>
    ELSE LET db == AddMessageStatements(session_id, role, content)
         IN  IF role \in Roles /\ ForeignKeysHold(db.sessions, db.conversations)
             THEN \* conn.commit()
                  /\ sessions' = db.sessions
                  /\ conversations' = db.conversations
                  /\ seq' = seq + 1
                  /\ appended' = [appended EXCEPT ![session_id] =
                                    IF session_id \in DOMAIN sessions THEN @ + 1 ELSE 1]
                  /\ last' = Returned("add_message", <<session_id, role, content>>,
                                      "ok", session_id \notin DOMAIN sessions)
             ELSE \* CHECK (role IN ...) or the foreign key fails: conn.rollback()
                  /\ last' = Returned("add_message", <<session_id, role, content>>,
                                      "IntegrityError", FALSE)
                  /\ UNCHANGED <<sessions, conversations, seq, appended>>

\* the statements of clear_session's connection, in order: the tables they leave
ClearSessionStatements(session_id) ==
    [conversations |-> DeleteConversations(conversations, session_id),
     sessions |-> DeleteSession(sessions, session_id)]

\* mutant: only the sessions row is deleted, on a connection that does not
\* enforce foreign keys
clear_session_row_only(session_id) ==
    IF ~Truthy(session_id)
    THEN /\ last' = Returned("clear_session", <<session_id>>, "ValueError", FALSE)
         /\ UNCHANGED <<sessions, conversations, seq, appended>>
    ELSE /\ sessions' = DeleteSession(sessions, session_id)
         /\ last' = Returned("clear_session", <<session_id>>, "ok", FALSE)
         /\ UNCHANGED <<conversations, seq, appended>>

clear_session(session_id) ==
    IF ~Truthy(session_id)
    THEN /\ last' = Returned("clear_session", <<session_id>>, "ValueError", FALSE)
         /\ UNCHANGED <<sessions, conversations, seq, appended>>
    ELSE LET db == ClearSessionStatements(session_id)
         IN  IF ForeignKeysHold(db.sessions, db.conversations)
             THEN \* conn.commit()
                  /\ sessions' = db.sessions
                  /\ conversations' = db.conversations
                  /\ last' = Returned("clear_session", <<session_id>>, "ok", FALSE)
                  /\ UNCHANGED <<seq, appended>>
             ELSE \* the foreign key fails: conn.rollback()
                  /\ last' = Returned("clear_session", <<session_id>>,
                                      "IntegrityError", FALSE)
                  /\ UNCHANGED <<sessions, conversations, seq, appended>>

---------------------------------------------------------------------------
(* The repository driven by any caller *)

\* arguments: every valid combination, and every way of being invalid
\* mutant: a read that creates the row it does not find
read_or_create(op, args) ==
    /\ sessions' = IF Truthy(args[1])
                   THEN InsertOrIgnoreSession(sessions, args[1], None)
                   ELSE sessions
    /\ last' = Returned(op, args, "ok", FALSE)
    /\ UNCHANGED <<conversations, seq, appended>>

\* a SELECT on a connection of its own: nothing is written, so the commit of
\* execute_query and the close of get_connection leave the tables as they are;
\* the value returned is get_session_info / get_conversation_history of args
read(op, args) ==
    /\ last' = Returned(op, args, "ok", FALSE)
    /\ UNCHANGED <<sessions, conversations, seq, appended>>

SessionIdArgs == SessionIds \cup {<<>>}
CreateNameArgs == {None, Title}
UpdateNameArgs == {None, <<>>, Title}
AddMessageArgs ==
    (SessionIds \X {<<"user">>} \X {Hi})
    \cup (SessionIds \X {<<"assistant">>} \X {<<>>})
    \cup ({<<>>} \X {<<"user">>} \X {Hi})
    \cup ({S1} \X {None, <<>>, <<"system">>} \X {Hi})
    \cup ({S1} \X {<<"user">>} \X {None})
    \cup {<<S2, <<"system">>, Hi>>, << <<>>, None, None >>}

Tick ==
    /\ now < MaxClock
    /\ now' = now + 1
    /\ UNCHANGED <<sessions, conversations, seq, last, appended, pc, call, txn, current_session_id>>

CreateSession ==
    \E s \in SessionIdArgs \cup {<<" ">>}, n \in CreateNameArgs :
        create_session(s, n) /\ UNCHANGED <<now, pc, call, txn, current_session_id>>

UpdateSessionName ==
    \E s \in SessionIdArgs, n \in UpdateNameArgs :
        update_session_name(s, n) /\ UNCHANGED <<now, pc, call, txn, current_session_id>>

AddMessage ==
    \E a \in AddMessageArgs :
        /\ seq < MaxId
        /\ add_message(a[1], a[2], a[3])
        /\ UNCHANGED <<now, pc, call, txn, current_session_id>>

ClearSession ==
    \E s \in SessionIdArgs :
        clear_session(s) /\ UNCHANGED <<now, pc, call, txn, current_session_id>>

HistoryLimits == {<<>>, <<DefaultLimit>>}

GetSessionInfo ==
    \E s \in SessionIdArgs :
        read("get_session_info", <<s>>) /\ UNCHANGED <<now, pc, call, txn, current_session_id>>

GetConversationHistory ==
    \E s \in SessionIdArgs, limit \in HistoryLimits :
        read("get_conversation_history", <<s, limit>>) /\ UNCHANGED <<now, pc, call, txn, current_session_id>>

---------------------------------------------------------------------------
(* GeminiClient: session naming.  reply is what generate_content did:      *)
(* raised an exception, or returned a response whose text is reply.text    *)

fallback_session_name(user_input) ==
    LET words == split(user_input)
    IN  join(SubSeq(words, 1, IF Len(words) < 3 THEN Len(words) ELSE 3))
        \o (IF Len(words) > 3 THEN Ellipsis ELSE <<>>)

\* mutant: the name is cut after 50 characters, the marker comes on top
generate_session_name_cut_at_50(user_input, ai_response, reply) ==
    IF ~Truthy(user_input) \/ ~Truthy(ai_response) THEN NewConversation
    ELSE IF reply.raised THEN fallback_session_name(user_input)
    ELSE IF Truthy(reply.text)
    THEN LET stripped == StripQuotes(strip(reply.text))
             session_name == IF Len(stripped) > 50
                             THEN SubSeq(stripped, 1, 50) \o Ellipsis
                             ELSE stripped
         IN  IF session_name # <<>> THEN session_name
             ELSE fallback_session_name(user_input)
    ELSE fallback_session_name(user_input)

generate_session_name(user_input, ai_response, reply) ==
    IF ~Truthy(user_input) \/ ~Truthy(ai_response) THEN NewConversation
    ELSE IF reply.raised THEN fallback_session_name(user_input)
    ELSE IF Truthy(reply.text)
    THEN LET stripped == StripQuotes(strip(reply.text))
             session_name == IF Len(stripped) > 50
                             THEN SubSeq(stripped, 1, 47) \o Ellipsis
                             ELSE stripped
         IN  IF session_name # <<>> THEN session_name
             ELSE fallback_session_name(user_input)
    ELSE fallback_session_name(user_input)

---------------------------------------------------------------------------
(* MessageHandler.send_message, one step per repository call or model call *)

Callers == 1..NumCallers
Main == 1

NoCall ==
    [session_id |-> <<>>, user_input |-> <<>>, contents |-> <<>>,
     full_response |-> <<>>, fragments |-> 0, ret |-> <<>>,
     entry |-> <<>>, stored |-> <<>>, renamed |-> FALSE, model_failed |-> FALSE,
     title |-> <<>>]

\* return ai_response
ReturnResponse(c, locals) ==
    /\ pc' = [pc EXCEPT ![c] = "done"]
    /\ call' = [call EXCEPT ![c] =
                   [locals EXCEPT !.ret = <<[error |-> FALSE, text |-> locals.full_response]>>]]

\* except Exception as e: return f"Error getting AI response: {e}"
ReturnError(c, locals, e) ==
    /\ pc' = [pc EXCEPT ![c] = "done"]
    /\ call' = [call EXCEPT ![c] =
                   [locals EXCEPT !.ret = <<[error |-> TRUE, text |-> e]>>]]

build_conversation_contents(session_id, user_input) ==
    LET history == get_conversation_history(session_id, <<DefaultLimit>>)
    IN  [i \in 1..Len(history) |->
            [role |-> IF history[i].role = <<"user">> THEN "user" ELSE "model",
             text |-> history[i].content]]
        \o <<[role |-> "user", text |-> user_input]>>

\* the call starts: contents = self.build_conversation_contents(...)
send_message(c, session_id, user_input) ==
    /\ pc[c] = "idle"
    /\ pc' = [pc EXCEPT ![c] = "open"]
    /\ call' = [call EXCEPT ![c] =
                   [NoCall EXCEPT !.session_id = session_id,
                                  !.user_input = user_input,
                                  !.contents = build_conversation_contents(session_id, user_input),
                                  !.entry = <<[sessions |-> sessions,
                                               conversations |-> conversations]>>]]
    /\ UNCHANGED <<sessions, conversations, seq, now, last, appended, txn, current_session_id>>

\* mutant: the user turn is stored before the model is called
generate_content_stream_after_store(c) ==
    /\ pc[c] = "open"
    /\ add_message(call[c].session_id, <<"user">>, call[c].user_input)
    /\ \E opened \in BOOLEAN :
          IF opened
          THEN pc' = [pc EXCEPT ![c] = "stream"] /\ UNCHANGED call
          ELSE ReturnError(c, [call[c] EXCEPT !.model_failed = TRUE], "RuntimeError")
    /\ UNCHANGED <<now, txn, current_session_id>>

\* mutant: the request is built again, from the history of that moment, when
\* the stream is opened
generate_content_stream_rebuilding(c) ==
    /\ pc[c] = "open"
    /\ \E opened \in BOOLEAN :
          IF opened
          THEN /\ pc' = [pc EXCEPT ![c] = "stream"]
               /\ call' = [call EXCEPT ![c].contents =
                              build_conversation_contents(call[c].session_id,
                                                          call[c].user_input)]
          ELSE ReturnError(c, [call[c] EXCEPT !.model_failed = TRUE], "RuntimeError")
    /\ UNCHANGED <<sessions, conversations, seq, now, last, appended, txn, current_session_id>>

\* stream = self.ai_client.generate_content_stream(...): opens or raises
generate_content_stream(c) ==
    /\ pc[c] = "open"
    /\ \E opened \in BOOLEAN :
          IF opened
          THEN pc' = [pc EXCEPT ![c] = "stream"] /\ UNCHANGED call
          ELSE ReturnError(c, [call[c] EXCEPT !.model_failed = TRUE], "RuntimeError")
    /\ UNCHANGED <<sessions, conversations, seq, now, last, appended, txn, current_session_id>>

\* for chunk in stream: one fragment arrives, with or without text, or the stream raises
NextFragment(c) ==
    /\ pc[c] = "stream"
    /\ \/ \E text \in {<<>>, Ok} :
             /\ call[c].fragments < MaxFragments
             /\ call' = [call EXCEPT ![c].fragments = @ + 1,
                                     ![c].full_response =
                                         IF text # <<>> THEN @ \o text ELSE @]
             /\ UNCHANGED pc
       \/ ReturnError(c, [call[c] EXCEPT !.model_failed = TRUE], "StreamError")
    /\ UNCHANGED <<sessions, conversations, seq, now, last, appended, txn, current_session_id>>

\* the stream is exhausted
EndOfStream(c) ==
    /\ pc[c] = "stream"
    /\ pc' = [pc EXCEPT ![c] = "store"]
    /\ UNCHANGED <<sessions, conversations, seq, now, last, appended, call, txn, current_session_id>>

\* mutant: the assistant turn is stored first
TurnsToStoreReversed(c) ==
    << <<"assistant", call[c].full_response>>, <<"user", call[c].user_input>> >>

\* mutant: an empty response is not stored
TurnsToStoreSkippingEmpty(c) ==
    IF call[c].full_response = <<>>
    THEN << <<"user", call[c].user_input>> >>
    ELSE << <<"user", call[c].user_input>>, <<"assistant", call[c].full_response>> >>

\* the two add_message calls, in the order they are made
TurnsToStore(c) ==
    << <<"user", call[c].user_input>>, <<"assistant", call[c].full_response>> >>

\* self.conversation_repo.add_message(...): the next of the two
StoreTurn(c) ==
    /\ pc[c] = "store"
    /\ LET turn == TurnsToStore(c)[Len(call[c].stored) + 1]
       IN  /\ add_message(call[c].session_id, <<turn[1]>>, turn[2])
           /\ IF last'.result = "ok"
              THEN /\ call' = [call EXCEPT ![c].stored =
                                  Append(@, [role |-> turn[1], id |-> seq'])]
                   /\ pc' = [pc EXCEPT ![c] =
                                IF Len(call[c].stored) + 1 = Len(TurnsToStore(c))
                                THEN "check" ELSE "store"]
              ELSE ReturnError(c, call[c], last'.result)
    /\ UNCHANGED <<now, txn, current_session_id>>

\* mutant: if len(history) >= 2
CheckFirstExchangeAtLeastTwo(c) ==
    /\ pc[c] = "check"
    /\ IF Len(get_conversation_history(call[c].session_id, <<DefaultLimit>>)) >= 2
       THEN pc' = [pc EXCEPT ![c] = "name"] /\ UNCHANGED call
       ELSE ReturnResponse(c, call[c])
    /\ UNCHANGED <<sessions, conversations, seq, now, last, appended, txn, current_session_id>>

\* (get_session_token_count before it only reads the history, for display)
\* history = self.conversation_repo.get_conversation_history(session_id)
\* if len(history) == 2
CheckFirstExchange(c) ==
    /\ pc[c] = "check"
    /\ IF Len(get_conversation_history(call[c].session_id, <<DefaultLimit>>)) = 2
       THEN pc' = [pc EXCEPT ![c] = "name"] /\ UNCHANGED call
       ELSE ReturnResponse(c, call[c])
    /\ UNCHANGED <<sessions, conversations, seq, now, last, appended, txn, current_session_id>>

TitleReplies ==
    {[raised |-> TRUE, text |-> None], [raised |-> FALSE, text |-> None],
     [raised |-> FALSE, text |-> Title], [raised |-> FALSE, text |-> <<"'", "'">>]}

\* what became of the title request: whether generate_content was called,
\* whether it raised, the text it returned, and the name that came of it
TitleOutcome(c, reply, session_name) ==
    LET called == Truthy(call[c].user_input) /\ Truthy(call[c].full_response)
    IN  <<[called |-> called,
           raised |-> called /\ reply.raised,
           text |-> IF called /\ ~reply.raised THEN reply.text ELSE None,
           session_name |-> session_name]>>

\* mutant: generate_session_name has no except clause, the error of the
\* title request reaches the handler of send_message
NameSessionPropagating(c, replies) ==
    /\ pc[c] = "name"
    /\ \E reply \in replies :
          LET session_name == generate_session_name(call[c].user_input,
                                                    call[c].full_response, reply)
              locals == [call[c] EXCEPT !.title = TitleOutcome(c, reply, session_name)]
          IN  IF locals.title[1].raised
              THEN /\ ReturnError(c, locals, "RuntimeError")
                   /\ UNCHANGED <<sessions, conversations, seq, last, appended>>
              ELSE IF Truthy(session_name)
              THEN /\ update_session_name(call[c].session_id, session_name)
                   /\ IF last'.result = "ok"
                      THEN ReturnResponse(c, [locals EXCEPT !.renamed = TRUE])
                      ELSE ReturnError(c, locals, last'.result)
              ELSE /\ ReturnResponse(c, locals)
                   /\ UNCHANGED <<sessions, conversations, seq, last, appended>>
    /\ UNCHANGED <<now, txn, current_session_id>>

\* session_name = self.ai_client.generate_session_name(user_input, ai_response)
\* if session_name: self.conversation_repo.update_session_name(...)
\* (replies: what the title request may come back with)
NameSessionFrom(c, replies) ==
    /\ pc[c] = "name"
    /\ \E reply \in replies :
          LET session_name == generate_session_name(call[c].user_input,
                                                    call[c].full_response, reply)
              locals == [call[c] EXCEPT !.title = TitleOutcome(c, reply, session_name)]
          IN  IF Truthy(session_name)
              THEN /\ update_session_name(call[c].session_id, session_name)
                   /\ IF last'.result = "ok"
                      THEN ReturnResponse(c, [locals EXCEPT !.renamed = TRUE])
                      ELSE ReturnError(c, locals, last'.result)
              ELSE /\ ReturnResponse(c, locals)
                   /\ UNCHANGED <<sessions, conversations, seq, last, appended>>
    /\ UNCHANGED <<now, txn, current_session_id>>

NameSession(c) == NameSessionFrom(c, TitleReplies)

\* the caller has the returned string
Return(c) ==
    /\ pc[c] = "done"
    /\ pc' = [pc EXCEPT ![c] = "idle"]
    /\ call' = [call EXCEPT ![c] = NoCall]
    /\ UNCHANGED <<sessions, conversations, seq, now, last, appended, txn, current_session_id>>

\* mutant: the row of a colliding id is written anew
create_new_session_replacing(session_id) ==
    /\ sessions' = InsertOrReplaceSession(sessions, session_id, None)
    /\ last' = Returned("create_session", <<session_id, None>>, "ok",
                        session_id \notin DOMAIN sessions)
    /\ UNCHANGED <<conversations, seq, appended>>

\* SessionManager.create_new_session: the id is a timestamp and a random suffix
create_new_session(session_id) ==
    create_session(session_id, None)

---------------------------------------------------------------------------
(* One caller, one send_message at a time.  send_message never reads the   *)
(* clock, so these behaviours stay within one second of it.                *)

UserInputs == {<<>>, <<" ">>, Hi}

NewSession ==
    /\ pc[Main] = "idle"
    /\ \E s \in SessionIds : create_new_session(s)
    /\ UNCHANGED <<now, pc, call, txn, current_session_id>>

SendMessage ==
    /\ seq + 2 <= 2 * MaxExchanges
    /\ \E s \in SessionIds, u \in UserInputs : send_message(Main, s, u)

OpenStream == generate_content_stream(Main)
Fragment == NextFragment(Main)
StreamEnd == EndOfStream(Main)
Store == StoreTurn(Main)
Check == CheckFirstExchange(Main)
Name == NameSession(Main)
Returns == Return(Main)

NextSend ==
    \/ NewSession
    \/ SendMessage
    \/ OpenStream
    \/ Fragment
    \/ StreamEnd
    \/ Store
    \/ Check
    \/ Name
    \/ Returns

---------------------------------------------------------------------------
(* One repository operation, statement by statement.  Every operation      *)
(* opens a connection of its own (get_connection); sqlite3 begins a        *)
(* transaction before the first INSERT / DELETE, and the statements reach  *)
(* the database file at conn.commit().  A connection that finds the file   *)
(* locked by another writer gets OperationalError once its timeout is up.  *)

Connections == Callers

Database == [sessions |-> sessions, conversations |-> conversations, seq |-> seq]

StatementCount == 2

\* the k-th statement of the operation, run on the connection's view db
ExecuteStatement(op, args, k, db) ==
    IF op = "add_message"
    THEN IF k = 1
         THEN [db EXCEPT !.sessions = InsertOrIgnoreSession(db.sessions, args[1], None)]
         ELSE [db EXCEPT !.conversations = @ \cup
                            {[id |-> db.seq + 1, session_id |-> args[1],
                              role |-> args[2], content |-> args[3],
                              timestamp |-> now]},
                         !.seq = @ + 1]
    ELSE IF k = 1
         THEN [db EXCEPT !.conversations = DeleteConversations(db.conversations, args[1])]
         ELSE [db EXCEPT !.sessions = DeleteSession(db.sessions, args[1])]

\* CHECK (role IN ('user', 'assistant')) and the foreign key, after a statement
ConstraintsHold(op, db) ==
    /\ \A r \in db.conversations : r.role \in Roles
    /\ ForeignKeysHold(db.sessions, db.conversations)

\* mutant: isolation_level = None, every statement commits by itself
ExecuteAutocommit(c, t, db) ==
    /\ txn' = [txn EXCEPT ![c] = <<[t EXCEPT !.db = db, !.step = @ + 1]>>]
    /\ sessions' = db.sessions
    /\ conversations' = db.conversations
    /\ seq' = db.seq

\* cursor.execute inside the transaction: only the connection sees the change
ExecuteInTransaction(c, t, db) ==
    /\ txn' = [txn EXCEPT ![c] = <<[t EXCEPT !.db = db, !.step = @ + 1]>>]
    /\ UNCHANGED <<sessions, conversations, seq>>

\* the operation is called: validation, connect, first statement
Begin(c, op, args) ==
    /\ txn[c] = <<>>
    /\ IF \E i \in 1..Len(args) : IF i = 3 THEN args[i] = None ELSE ~Truthy(args[i])
       THEN /\ last' = Returned(op, args, "ValueError", FALSE)
            /\ UNCHANGED <<sessions, conversations, seq, txn>>
       ELSE IF \E d \in Connections : txn[d] # <<>>
       THEN \* database is locked
            /\ last' = Returned(op, args, "OperationalError", FALSE)
            /\ UNCHANGED <<sessions, conversations, seq, txn>>
       ELSE /\ ExecuteInTransaction(c, [op |-> op, args |-> args, step |-> 0,
                                        begin |-> Database, db |-> Database],
                                    ExecuteStatement(op, args, 1, Database))
            /\ UNCHANGED last
    /\ UNCHANGED <<now, appended, pc, call, current_session_id>>

\* mutant: on a constraint failure the statements run so far are committed
StatementKeepingPartial(c) ==
    /\ txn[c] # <<>>
    /\ txn[c][1].step < StatementCount
    /\ LET t == txn[c][1]
           db == ExecuteStatement(t.op, t.args, t.step + 1, t.db)
       IN  IF ConstraintsHold(t.op, db)
           THEN ExecuteInTransaction(c, t, db) /\ UNCHANGED last
           ELSE /\ txn' = [txn EXCEPT ![c] = <<>>]
                /\ last' = Returned(t.op, t.args, "IntegrityError", FALSE)
                /\ sessions' = t.db.sessions
                /\ conversations' = t.db.conversations
                /\ seq' = t.db.seq
    /\ UNCHANGED <<now, appended, pc, call, current_session_id>>

\* the second statement, or the constraint failure that rolls back
Statement(c) ==
    /\ txn[c] # <<>>
    /\ txn[c][1].step < StatementCount
    /\ LET t == txn[c][1]
           db == ExecuteStatement(t.op, t.args, t.step + 1, t.db)
       IN  IF ConstraintsHold(t.op, db)
           THEN ExecuteInTransaction(c, t, db) /\ UNCHANGED last
           ELSE \* except sqlite3.Error: conn.rollback(); raise
                /\ txn' = [txn EXCEPT ![c] = <<>>]
                /\ last' = Returned(t.op, t.args, "IntegrityError", FALSE)
                /\ UNCHANGED <<sessions, conversations, seq>>
    /\ UNCHANGED <<now, appended, pc, call, current_session_id>>

\* conn.commit()
Commit(c) ==
    /\ txn[c] # <<>>
    /\ txn[c][1].step = StatementCount
    /\ LET t == txn[c][1]
       IN  /\ sessions' = t.db.sessions
           /\ conversations' = t.db.conversations
           /\ seq' = t.db.seq
           /\ appended' = IF t.op = "add_message"
                          THEN [appended EXCEPT ![t.args[1]] =
                                   IF t.args[1] \in DOMAIN sessions THEN @ + 1 ELSE 1]
                          ELSE appended
           /\ last' = Returned(t.op, t.args, "ok",
                               t.op = "add_message" /\ t.args[1] \notin DOMAIN sessions)
    /\ txn' = [txn EXCEPT ![c] = <<>>]
    /\ UNCHANGED <<now, pc, call, current_session_id>>

\* the connection is closed before its commit (the process dies, an error
\* other than sqlite3.Error): finally conn.close() discards the transaction
Abort(c) ==
    /\ txn[c] # <<>>
    /\ txn' = [txn EXCEPT ![c] = <<>>]
    /\ last' = Returned(txn[c][1].op, txn[c][1].args, "Error", FALSE)
    /\ UNCHANGED <<sessions, conversations, seq, now, appended, pc, call, current_session_id>>

BeginAddMessage ==
    \E c \in Connections, a \in AddMessageArgs :
        seq < MaxId /\ Begin(c, "add_message", a)

BeginClearSession ==
    \E c \in Connections, s \in SessionIdArgs : Begin(c, "clear_session", <<s>>)

NextStatement == \E c \in Connections : Statement(c)
Commits == \E c \in Connections : Commit(c)
Aborts == \E c \in Connections : Abort(c)

\* mutant: the handler takes back the user turn when an append fails
StoreTurnFailsUndoing(c) ==
    /\ pc[c] = "store"
    /\ LET turn == TurnsToStore(c)[Len(call[c].stored) + 1]
       IN  last' = Returned("add_message",
                            <<call[c].session_id, <<turn[1]>>, turn[2]>>,
                            "OperationalError", FALSE)
    /\ conversations' = {r \in conversations :
                            \A i \in 1..Len(call[c].stored) : r.id # call[c].stored[i].id}
    /\ ReturnError(c, call[c], "OperationalError")
    /\ UNCHANGED <<sessions, seq, now, appended, txn, current_session_id>>

\* add_message raises sqlite3.OperationalError (the database is locked, the
\* disk is full): get_connection rolls back, nothing is written, and the
\* error reaches the handler of send_message
StoreTurnFails(c) ==
    /\ pc[c] = "store"
    /\ LET turn == TurnsToStore(c)[Len(call[c].stored) + 1]
       IN  last' = Returned("add_message",
                            <<call[c].session_id, <<turn[1]>>, turn[2]>>,
                            "OperationalError", FALSE)
    /\ ReturnError(c, call[c], "OperationalError")
    /\ UNCHANGED <<sessions, conversations, seq, now, appended, txn, current_session_id>>

\* update_session_name raises sqlite3.OperationalError
NameSessionFails(c) ==
    /\ pc[c] = "name"
    /\ \E reply \in TitleReplies :
          LET session_name == generate_session_name(call[c].user_input,
                                                    call[c].full_response, reply)
          IN  /\ Truthy(session_name)
              /\ last' = Returned("update_session_name",
                                  <<call[c].session_id, session_name>>,
                                  "OperationalError", FALSE)
              /\ ReturnError(c, [call[c] EXCEPT
                                    !.title = TitleOutcome(c, reply, session_name)],
                             "OperationalError")
    /\ UNCHANGED <<sessions, conversations, seq, now, appended, txn, current_session_id>>

StoreFails == StoreTurnFails(Main)
NameFails == NameSessionFails(Main)

SendToOneSession ==
    /\ seq + 2 <= 2 * MaxExchanges
    /\ \E u \in UserInputs : send_message(Main, S1, u)

NextFail ==
    \/ SendToOneSession
    \/ OpenStream
    \/ Fragment
    \/ StreamEnd
    \/ Store
    \/ StoreFails
    \/ Check
    \/ Name
    \/ NameFails
    \/ Returns

\* the first exchange of a session, with user inputs of up to four words and
\* title responses around the 50 characters a name may have
Words == << <<"a">>, <<"b">>, <<"c">>, <<"d">> >>
TitleInputs == {<<>>, <<" ">>, Hi} \cup {join(SubSeq(Words, 1, n)) : n \in 2..4}

Digits == <<"0", "1", "2", "3", "4", "5", "6", "7", "8", "9">>
Text(n) == [i \in 1..n |-> Digits[(i % 10) + 1]]
TitleTexts ==
    UNION {{Text(n), <<"\"">> \o Text(n) \o <<"'">>, <<" ">> \o Text(n) \o <<" ">>,
            SubSeq(Text(n), 1, n - 1) \o <<"'">> \o <<Text(n)[n]>>} :
           n \in (MaxTitleLen - 4)..MaxTitleLen}

LongTitleReplies == {[raised |-> FALSE, text |-> t] : t \in TitleTexts}

SendFirstMessage ==
    /\ seq = 0
    /\ \E u \in TitleInputs : send_message(Main, S1, u)

NameFirstExchange == NameSessionFrom(Main, TitleReplies \cup LongTitleReplies)

NextTitle ==
    \/ SendFirstMessage
    \/ OpenStream
    \/ Fragment
    \/ StreamEnd
    \/ Store
    \/ Check
    \/ NameFirstExchange

\* several send_message calls at once on one session, each caller calling
\* once; the calls share nothing but the database.  The callers are alike,
\* so they are numbered in the order in which their calls begin.
ConcSendMessage ==
    \E c \in Callers :
        /\ \A d \in Callers : d < c => pc[d] # "idle"
        /\ send_message(c, S1, Hi)
ConcOpenStream == \E c \in Callers : generate_content_stream(c)
ConcFragment == \E c \in Callers : NextFragment(c)
ConcStreamEnd == \E c \in Callers : EndOfStream(c)
ConcStore == \E c \in Callers : StoreTurn(c)
ConcCheck == \E c \in Callers : CheckFirstExchange(c)
ConcName == \E c \in Callers : NameSession(c)

\* send_message calls at once on different sessions: one caller for each
\* session id, each calling once
ParCallers == {c \in Callers : c <= Cardinality(SessionIds)}
SessionOf(c) == IF c = 1 THEN S1 ELSE S2

ParSendMessage ==
    \E c \in ParCallers, u \in UserInputs : send_message(c, SessionOf(c), u)

NextPar ==
    \/ ParSendMessage
    \/ ConcOpenStream
    \/ ConcFragment
    \/ ConcStreamEnd
    \/ ConcStore
    \/ ConcCheck
    \/ ConcName

NextConc ==
    \/ ConcSendMessage
    \/ ConcOpenStream
    \/ ConcFragment
    \/ ConcStreamEnd
    \/ ConcStore
    \/ ConcCheck
    \/ ConcName

NextTxn ==
    \/ BeginAddMessage
    \/ BeginClearSession
    \/ NextStatement
    \/ Commits
    \/ Aborts

---------------------------------------------------------------------------

Init ==
    /\ sessions = <<>>
    /\ conversations = {}
    /\ seq = 0
    /\ now = 0
    /\ last = Returned("init_database", <<>>, "ok", FALSE)
    /\ appended = [s \in SessionIds |-> 0]
    /\ pc = [c \in Callers |-> "idle"]
    /\ call = [c \in Callers |-> NoCall]
    /\ txn = [c \in Connections |-> <<>>]
    /\ current_session_id = None

\* a session that holds about as many messages as the default limit: n
\* messages appended in one second, user and assistant in turn
LongHistory(n) ==
    {[id |-> i, session_id |-> S1,
      role |-> IF i % 2 = 1 THEN <<"user">> ELSE <<"assistant">>,
      content |-> IF i % 2 = 1 THEN Hi ELSE Ok,
      timestamp |-> 0] : i \in 1..n}

InitLong ==
    \E n \in (DefaultLimit - 1)..MaxHistory :
        /\ sessions = [s \in {S1} |->
                          [session_name |-> Title, created_at |-> 0, updated_at |-> 0]]
        /\ conversations = LongHistory(n)
        /\ seq = n
        /\ now = 0
        /\ last = Returned("add_message",
                           IF n % 2 = 1 THEN <<S1, <<"user">>, Hi>>
                           ELSE <<S1, <<"assistant">>, Ok>>, "ok", FALSE)
        /\ appended = [s \in SessionIds |-> IF s = S1 THEN n ELSE 0]
        /\ pc = [c \in Callers |-> "idle"]
        /\ call = [c \in Callers |-> NoCall]
        /\ txn = [c \in Connections |-> <<>>]
        /\ current_session_id = None

SendToLongSession ==
    /\ seq <= MaxHistory
    /\ \E u \in UserInputs : send_message(Main, S1, u)

\* (a history of two messages is not found here, the session is not named)
NextLong ==
    \/ SendToLongSession
    \/ OpenStream
    \/ Fragment
    \/ StreamEnd
    \/ Store
    \/ Check
    \/ Returns

SpecLong == InitLong /\ [][NextLong]_vars

Next ==
    \/ Tick
    \/ CreateSession
    \/ UpdateSessionName
    \/ AddMessage
    \/ ClearSession

NextRead ==
    \/ Tick
    \/ CreateSession
    \/ AddMessage
    \/ ClearSession
    \/ GetSessionInfo
    \/ GetConversationHistory

\* the repository called directly between send_message calls
Idle == pc[Main] = "idle"
TickAll == Idle /\ Tick
AddMessageAll == Idle /\ AddMessage
ClearSessionAll == Idle /\ ClearSession

SendMessageAll ==
    /\ seq < MaxId
    /\ \E s \in SessionIds, u \in UserInputs : send_message(Main, s, u)

NextAll ==
    \/ TickAll
    \/ AddMessageAll
    \/ ClearSessionAll
    \/ SendMessageAll
    \/ OpenStream
    \/ Fragment
    \/ StreamEnd
    \/ Store
    \/ Check
    \/ Name
    \/ Returns

---------------------------------------------------------------------------
(* ChatApplication: one application on the database, its operations called *)
(* one after another by the command loop.                                  *)

\* ChatApplication.__init__: the initial session
ChatApplication ==
    /\ current_session_id = None
    /\ \E s \in SessionIds :
          /\ create_new_session(s)
          /\ current_session_id' = s
    /\ UNCHANGED <<now, pc, call, txn>>

\* ChatApplication.send_message: the message goes to the current session
AppSendMessage ==
    /\ current_session_id # None
    /\ seq + 2 <= 2 * MaxExchanges
    /\ \E u \in UserInputs : send_message(Main, current_session_id, u)

\* ChatApplication.create_new_session
AppCreateNewSession ==
    /\ current_session_id # None
    /\ Idle
    /\ \E s \in SessionIds :
          /\ create_new_session(s)
          /\ current_session_id' = s
    /\ UNCHANGED <<now, pc, call, txn>>

\* mutant: the session is not looked up
switch_session_unchecked(session_id) ==
    /\ current_session_id' = session_id
    /\ last' = Returned("switch_session", <<session_id>>, "True", FALSE)
    /\ UNCHANGED <<sessions, conversations, seq, appended>>

\* ChatApplication.switch_session
switch_session(session_id) ==
    LET session_info == get_session_info(session_id)
    IN  /\ IF session_info # <<>>
           THEN /\ current_session_id' = session_id
                /\ last' = Returned("switch_session", <<session_id>>, "True", FALSE)
           ELSE /\ UNCHANGED current_session_id
                /\ last' = Returned("switch_session", <<session_id>>, "False", FALSE)
        /\ UNCHANGED <<sessions, conversations, seq, appended>>

AppSwitchSession ==
    /\ current_session_id # None
    /\ Idle
    /\ \E s \in SessionIdArgs : switch_session(s)
    /\ UNCHANGED <<now, pc, call, txn>>

\* ChatApplication.clear_current_session: clear_session of the current
\* session, then create_new_session, whose generated id is session_id
clear_current_session(session_id) ==
    LET db == ClearSessionStatements(current_session_id)
    IN  /\ sessions' = InsertOrIgnoreSession(db.sessions, session_id, None)
        /\ conversations' = db.conversations
        /\ appended' = IF session_id \in DOMAIN db.sessions THEN appended
                       ELSE [appended EXCEPT ![session_id] = 0]
        /\ last' = Returned("clear_current_session",
                            <<current_session_id, session_id>>, "ok",
                            session_id \notin DOMAIN db.sessions)
        /\ current_session_id' = session_id
        /\ UNCHANGED seq

AppClearCurrentSession ==
    /\ current_session_id # None
    /\ Idle
    /\ \E s \in SessionIds : clear_current_session(s)
    /\ UNCHANGED <<now, pc, call, txn>>

\* ChatCLI.switch_session after a successful switch: the messages of the
\* "recent conversation", get_conversation_history(limit=3)[-3:], each cut
\* to 80 characters
recent_history ==
    LET history == get_conversation_history(current_session_id, <<PreviewLimit>>)
        n == Len(history)
        shown == SubSeq(history, IF n > PreviewLimit THEN n - PreviewLimit + 1 ELSE 1, n)
    IN  [i \in 1..Len(shown) |->
            [role |-> shown[i].role,
             content |-> IF Len(shown[i].content) > PreviewWidth
                         THEN SubSeq(shown[i].content, 1, PreviewWidth) \o Ellipsis
                         ELSE shown[i].content]]

NextApp ==
    \/ ChatApplication
    \/ AppSendMessage
    \/ OpenStream
    \/ Fragment
    \/ StreamEnd
    \/ Store
    \/ Check
    \/ Name
    \/ Returns
    \/ AppCreateNewSession
    \/ AppSwitchSession
    \/ AppClearCurrentSession

SpecApp == Init /\ [][NextApp]_vars

SpecAll == Init /\ [][NextAll]_vars

SpecTxn == Init /\ [][NextTxn]_vars

SpecConc == Init /\ [][NextConc]_vars

SpecTitle == Init /\ [][NextTitle]_vars

SpecFail == Init /\ [][NextFail]_vars

SpecPar == Init /\ [][NextPar]_vars

SpecRead == Init /\ [][NextRead]_vars

Spec == Init /\ [][Next]_vars

SpecSend == Init /\ [][NextSend]_vars

---------------------------------------------------------------------------
(* Claims *)

\* C1: a send_message call in which the external model failed, at the opening
\* of the stream or at any fragment, returns an error string and leaves the
\* sessions and conversations tables exactly as they were when it started.
ModelFailureWritesNothing ==
    \A c \in Callers :
        (pc[c] = "done" /\ call[c].model_failed) =>
            /\ call[c].ret[1].error
            /\ sessions = call[c].entry[1].sessions
            /\ conversations = call[c].entry[1].conversations

\* the stream failed after a fragment with text, on a session with stored turns
ModelFailedMidStream ==
    /\ pc[Main] = "done"
    /\ call[Main].model_failed
    /\ call[Main].full_response # <<>>
    /\ RowsOf(call[Main].session_id) # {}

\* C2: whenever send_message has stored the assistant turn of an exchange, it
\* has stored the user turn of that exchange before, under a smaller id.
AssistantAfterUser ==
    \A c \in Callers :
        LET stored == call[c].stored
        IN  \A i \in 1..Len(stored) :
              /\ \E r \in conversations :
                    /\ r.id = stored[i].id
                    /\ r.role = <<stored[i].role>>
                    /\ r.session_id = call[c].session_id
              /\ stored[i].role = "assistant" =>
                    \E j \in 1..Len(stored) :
                        stored[j].role = "user" /\ stored[j].id < stored[i].id

\* both turns of an exchange are stored
BothTurnsStored ==
    /\ Len(call[Main].stored) = 2
    /\ pc[Main] = "check"

\* C3: a successful send_message updates the session name exactly when it
\* brought the stored message count of the session to 2, whatever the title
\* generation did.
AutoNameExactlyOnce ==
    \A c \in Callers :
        (pc[c] = "done" /\ ~call[c].ret[1].error) =>
            (call[c].renamed <=> message_count(call[c].session_id) = 2)

HistoryCappedAtLimit ==
    \A s \in SessionIds :
        /\ \A n \in 0..MaxId : Len(get_conversation_history(s, <<n>>)) <= n
        /\ Len(get_conversation_history(s, <<DefaultLimit>>)) <= DefaultLimit
        /\ Len(get_conversation_history(s, <<>>)) = message_count(s)

\* C6: after clear_session(id) with a non-empty id the history of id is empty
\* and get_session_info(id) finds nothing.
ClearedSessionIsGone ==
    (last.op = "clear_session" /\ Truthy(last.args[1])) =>
        /\ last.result = "ok"
        /\ \A limit \in {<<>>, <<0>>, <<DefaultLimit>>} :
              get_conversation_history(last.args[1], limit) = <<>>
        /\ get_session_info(last.args[1]) = <<>>

\* a session that had messages was cleared
ClearedSessionWithMessages ==
    /\ last.op = "clear_session"
    /\ last.result = "ok"
    /\ appended[last.args[1]] > 0

\* C7: an add_message that succeeds leaves a session row; when it inserted the
\* row itself, get_session_info returns a record named by the session id, and
\* so it does for every row as long as no name is set.
ImplicitSessionNamedById ==
    /\ (last.op = "add_message" /\ last.result = "ok") =>
          get_session_info(last.args[1]) # <<>>
    /\ (last.op = "add_message" /\ last.inserted) =>
          get_session_info(last.args[1])[1].session_name = last.args[1]
    /\ \A s \in DOMAIN sessions :
          sessions[s].session_name = None =>
              get_session_info(s)[1].session_name = s

\* add_message created the session row of its message
SessionCreatedByAddMessage ==
    /\ last.op = "add_message"
    /\ last.inserted
    /\ RowsOf(last.args[1]) # {}

\* C8: every stored message belongs to an existing session row.
NoOrphanMessage ==
    \A r \in conversations : r.session_id \in DOMAIN sessions

\* a session was cleared while another one keeps its messages
ClearedBesideMessages ==
    /\ last.op = "clear_session"
    /\ last.result = "ok"
    /\ appended[last.args[1]] > 0
    /\ conversations # {}

\* C9: get_all_sessions reports for every session the number of messages
\* appended since its row was created, and a clear_session of another session
\* changes neither the row nor the messages of a session.
ClearFrame ==
    (last'.op = "clear_session") =>
        \A s \in DOMAIN sessions :
            s # last'.args[1] =>
                /\ s \in DOMAIN sessions'
                /\ sessions'[s] = sessions[s]
                /\ {r \in conversations' : r.session_id = s} = RowsOf(s)

MessageCountIsAppended ==
    /\ [](\A row \in get_all_sessions :
              row.message_count = appended[row.session_id])
    /\ [][ClearFrame]_vars

\* one session was cleared and the other one holds messages
OtherSessionKeepsCount ==
    /\ last.op = "clear_session"
    /\ last.result = "ok"
    /\ appended[last.args[1]] > 0
    /\ \E s \in DOMAIN sessions : s # last.args[1] /\ message_count(s) > 0

\* C10: add_message with an empty session id, an empty or missing role, or a
\* null content raises ValueError and writes no row.
InvalidAddMessage(args) ==
    ~Truthy(args[1]) \/ ~Truthy(args[2]) \/ args[3] = None

AddMessageRejectsInvalid ==
    [][(last'.op = "add_message" /\ InvalidAddMessage(last'.args)) =>
          /\ last'.result = "ValueError"
          /\ UNCHANGED <<sessions, conversations, seq>>]_vars

\* an invalid add_message was refused while rows are stored
InvalidAddMessageRefused ==
    /\ last.op = "add_message"
    /\ InvalidAddMessage(last.args)
    /\ last.result = "ValueError"
    /\ conversations # {}

\* C11: a message appended with the empty string as content is accepted and
\* stored; the history returns it, newest, with the empty string as content,
\* and it counts in the length of the history and in message_count.
EmptyContentIsAMessage ==
    /\ (/\ last.op = "add_message"
        /\ Truthy(last.args[1])
        /\ last.args[2] \in Roles
        /\ last.args[3] = <<>>) =>
          LET history == get_conversation_history(last.args[1], <<>>)
          IN  /\ last.result = "ok"
              /\ Len(history) >= 1
              /\ history[Len(history)].content = <<>>
              /\ history[Len(history)].role = last.args[2]
              /\ Len(history) = appended[last.args[1]]
    /\ \A row \in get_all_sessions :
          LET history == get_conversation_history(row.session_id, <<DefaultLimit>>)
          IN  /\ row.message_count = Len(history)
              /\ Cardinality({i \in 1..Len(history) : history[i].content = <<>>})
                    = Cardinality({r \in RowsOf(row.session_id) : r.content = <<>>})

\* a message with empty content was appended after one with text
EmptyContentAppended ==
    /\ last.op = "add_message"
    /\ last.result = "ok"
    /\ last.args[3] = <<>>
    /\ message_count(last.args[1]) = 2

\* C12: create_session for an id that has a row leaves the row (name,
\* created_at), the messages and every other row as they are, whatever the
\* name; with an empty id it raises ValueError and writes nothing.
CreateSessionStep ==
    (last'.op = "create_session") =>
        /\ ~Truthy(last'.args[1]) =>
              last'.result = "ValueError" /\ UNCHANGED <<sessions, conversations, seq>>
        /\ last'.args[1] \in DOMAIN sessions =>
              /\ last'.result = "ok"
              /\ DOMAIN sessions' = DOMAIN sessions
              /\ sessions'[last'.args[1]].session_name = sessions[last'.args[1]].session_name
              /\ sessions'[last'.args[1]].created_at = sessions[last'.args[1]].created_at
              /\ UNCHANGED <<sessions, conversations, seq>>

CreateSessionIsIdempotent == [][CreateSessionStep]_vars

\* create_session was called, a second later and with another name, for a
\* session that holds a message
CreateSessionIgnored ==
    /\ last.op = "create_session"
    /\ last.result = "ok"
    /\ ~last.inserted
    /\ last.args[2] = Title
    /\ sessions[last.args[1]].session_name = None
    /\ sessions[last.args[1]].created_at < now
    /\ RowsOf(last.args[1]) # {}

\* C13: update_session_name with an empty id or name raises ValueError and
\* changes nothing; with an unknown id it succeeds and changes nothing; with
\* a known id it changes the name and updated_at of that row only.
UpdateSessionNameStep ==
    (last'.op = "update_session_name" /\ last' # last) =>
        LET id == last'.args[1]
            name == last'.args[2]
        IN  IF ~Truthy(id) \/ ~Truthy(name)
            THEN last'.result = "ValueError" /\ UNCHANGED <<sessions, conversations, seq>>
            ELSE /\ last'.result = "ok"
                 /\ UNCHANGED <<conversations, seq>>
                 /\ DOMAIN sessions' = DOMAIN sessions
                 /\ \A s \in DOMAIN sessions :
                       IF s = id
                       THEN /\ sessions'[s].session_name = name
                            /\ sessions'[s].updated_at = now
                            /\ sessions'[s].created_at = sessions[s].created_at
                       ELSE sessions'[s] = sessions[s]

UpdateSessionNameChangesOneName == [][UpdateSessionNameStep]_vars

\* a session created a second ago and holding a message was named, beside
\* another session
SessionNamedLater ==
    /\ last.op = "update_session_name"
    /\ last.result = "ok"
    /\ last.args[1] \in DOMAIN sessions
    /\ sessions[last.args[1]].session_name = Title
    /\ sessions[last.args[1]].created_at < sessions[last.args[1]].updated_at
    /\ RowsOf(last.args[1]) # {}
    /\ DOMAIN sessions # {last.args[1]}

\* C14: a read of a session id that has no row, or of the empty id, does not
\* fail and writes nothing: get_session_info returns not-found,
\* get_conversation_history returns the empty sequence, and no row appears.
ReadStep ==
    (last'.op \in {"get_session_info", "get_conversation_history"}) =>
        /\ last'.result = "ok"
        /\ UNCHANGED <<sessions, conversations, seq>>

ReadsOfUnknownSession ==
    /\ [](\A s \in SessionIdArgs \ DOMAIN sessions :
            /\ get_session_info(s) = <<>>
            /\ \A limit \in HistoryLimits \cup {<<0>>, <<1>>} :
                  get_conversation_history(s, limit) = <<>>)
    /\ [][ReadStep]_vars

\* the history of a session that was cleared was read while another session
\* holds a message
UnknownSessionRead ==
    /\ last.op = "get_conversation_history"
    /\ Truthy(last.args[1])
    /\ last.args[1] \notin DOMAIN sessions
    /\ appended[last.args[1]] > 0
    /\ conversations # {}

\* C15: over repository and send_message operations a stored message never
\* changes, every new message gets an id above every id assigned before it,
\* and a message leaves storage only by a clear_session of its own session.
MessageStep ==
    /\ seq' >= seq
    /\ \A r \in conversations :
          \/ r \in conversations'
          \/ /\ last'.op = "clear_session"
             /\ last'.result = "ok"
             /\ last'.args[1] = r.session_id
             /\ \A q \in conversations' : q.id # r.id
    /\ \A q \in conversations' \ conversations :
          /\ q.id > seq
          /\ q.id = seq'
          /\ q.timestamp = now
          /\ \A r \in conversations : r.id < q.id

MessagesAreImmutable ==
    /\ [](\A r, q \in conversations : r.id = q.id => r = q)
    /\ [][MessageStep]_vars

\* a send_message stored its two turns after a session with a message was
\* cleared, a second later
StoredAfterClear ==
    /\ pc[Main] = "done"
    /\ Len(call[Main].stored) = 2
    /\ \E s \in SessionIds : s \notin DOMAIN sessions /\ appended[s] > 0
    /\ \A r \in conversations : r.id > 1 /\ r.timestamp > 0

\* C16: while a clear_session or add_message is between its statements the
\* database every other operation reads is the one from before it started;
\* an operation that fails leaves the database as it was, and one that
\* succeeds changes it by the whole of its effect at once.
AtomicStep ==
    IF \E c \in Connections : txn[c] # <<>> /\ txn'[c] = <<>>
    THEN IF last'.result = "ok"
         THEN LET db == IF last'.op = "add_message"
                        THEN AddMessageStatements(last'.args[1], last'.args[2],
                                                  last'.args[3])
                        ELSE ClearSessionStatements(last'.args[1])
              IN  sessions' = db.sessions /\ conversations' = db.conversations
         ELSE UNCHANGED <<sessions, conversations, seq>>
    ELSE UNCHANGED <<sessions, conversations, seq>>

OperationsAreAtomic ==
    /\ [](\A c \in Connections :
            txn[c] # <<>> => Database = txn[c][1].begin)
    /\ [][AtomicStep]_vars

\* clear_session of a session with a message has run its first DELETE only,
\* and another connection was refused meanwhile
ClearSessionHalfDone ==
    \E c \in Connections :
        /\ txn[c] # <<>>
        /\ txn[c][1].op = "clear_session"
        /\ txn[c][1].step = 1
        /\ RowsOf(txn[c][1].args[1]) # {}
        /\ txn[c][1].db.conversations = {}
        /\ txn[c][1].args[1] \in DOMAIN txn[c][1].db.sessions
        /\ last.result = "OperationalError"

\* C17: nothing serialises concurrent send_message calls on one session: the
\* request of a call holds the history stored when the call began and none of
\* the turns stored since, and the history lists the turns in the order of
\* their appends, whichever calls they belong to (the two user turns first,
\* when both were appended before either assistant turn).
RequestOmitsConcurrentTurns ==
    /\ \A c \in Callers :
          pc[c] # "idle" =>
             LET sid == call[c].session_id
                 then == {r \in call[c].entry[1].conversations : r.session_id = sid}
             IN  /\ Len(call[c].contents) = Cardinality(then) + 1
                 /\ \A i \in 1..Len(call[c].stored) :
                       /\ call[c].stored[i].id \notin {r.id : r \in then}
                       /\ \E r \in RowsOf(sid) : r.id = call[c].stored[i].id
    /\ LET history == OrderByTimestamp(RowsOf(S1))
       IN  \A i, j \in 1..Len(history) : i < j => history[i].id < history[j].id

\* two calls on one session, each with a request of its own turn only, have
\* stored user, user, assistant, assistant
UserTurnsBeforeAssistantTurns ==
    \E c, d \in Callers :
        /\ c # d
        /\ Len(call[c].stored) = 2 /\ Len(call[d].stored) = 2
        /\ call[c].session_id = call[d].session_id
        /\ Len(call[c].contents) = 1 /\ Len(call[d].contents) = 1
        /\ call[c].stored[1].id < call[d].stored[1].id
        /\ call[d].stored[1].id < call[c].stored[2].id
        /\ call[c].stored[2].id < call[d].stored[2].id
        /\ LET history == get_conversation_history(call[c].session_id, <<DefaultLimit>>)
           IN  /\ Len(history) = 4
               /\ history[1].role = <<"user">> /\ history[2].role = <<"user">>
               /\ history[3].role = <<"assistant">> /\ history[4].role = <<"assistant">>

\* C18: when the title request fails after the exchange succeeded,
\* send_message returns the response and no error, both turns are stored, and
\* the name is the fallback computed from the user input alone.
TitleFailureIsAbsorbed ==
    \A c \in Callers :
        (/\ pc[c] = "done"
         /\ call[c].title # <<>>
         /\ call[c].title[1].called
         /\ call[c].title[1].raised \/ ~Truthy(call[c].title[1].text)) =>
            /\ ~call[c].ret[1].error
            /\ call[c].ret[1].text = call[c].full_response
            /\ Len(call[c].stored) = 2
            /\ \E u, a \in RowsOf(call[c].session_id) :
                  /\ u.id = call[c].stored[1].id /\ a.id = call[c].stored[2].id
                  /\ u.role = <<"user">> /\ u.content = call[c].user_input
                  /\ a.role = <<"assistant">> /\ a.content = call[c].full_response
            /\ call[c].title[1].session_name = fallback_session_name(call[c].user_input)
            /\ Truthy(call[c].title[1].session_name) =>
                  sessions[call[c].session_id].session_name =
                      fallback_session_name(call[c].user_input)

\* the title request raised after a first exchange, which was named by fallback
TitleRequestRaised ==
    /\ pc[Main] = "done"
    /\ call[Main].title # <<>>
    /\ call[Main].title[1].raised
    /\ call[Main].renamed
    /\ sessions[call[Main].session_id].session_name = Hi

\* the text of a title response as generate_session_name cleans it
Sanitized(text) == StripQuotes(strip(text))

\* the first exchange ended and its name was taken from the title response
NamedFromResponse(c) ==
    /\ pc[c] = "done"
    /\ call[c].title # <<>>
    /\ call[c].title[1].called
    /\ ~call[c].title[1].raised
    /\ Truthy(call[c].title[1].text)
    /\ Sanitized(call[c].title[1].text) # <<>>

\* C19: a session name taken from a title response holds no quote character
\* and at most 50 characters; a cleaned response of more than 50 characters
\* is stored as its first 47 characters followed by "...".
NameFromResponseIsSanitized ==
    \A c \in Callers :
        NamedFromResponse(c) =>
            LET clean == Sanitized(call[c].title[1].text)
                name == sessions[call[c].session_id].session_name
            IN  /\ name = call[c].title[1].session_name
                /\ \A i \in 1..Len(name) : name[i] \notin {"\"", "'"}
                /\ Len(name) <= 50
                /\ Len(clean) <= 50 => name = clean
                /\ Len(clean) > 50 =>
                      /\ Len(name) = 50
                      /\ SubSeq(name, 1, 47) = SubSeq(clean, 1, 47)
                      /\ SubSeq(name, 48, 50) = <<".", ".", ".">>

\* a title response of more than 50 characters besides its quotes was stored
LongTitleStored ==
    /\ NamedFromResponse(Main)
    /\ Len(Sanitized(call[Main].title[1].text)) > 50
    /\ Len(call[Main].title[1].text) > Len(Sanitized(call[Main].title[1].text))
    /\ Len(sessions[call[Main].session_id].session_name) = 50

\* C20: when the title request of the first exchange fails, the name stored
\* is the first three words of the user input, or "New Conversation" when the
\* input is empty, and it is not empty.
FallbackNameIsStored ==
    \A c \in Callers :
        (/\ pc[c] = "done"
         /\ call[c].title # <<>>
         /\ \/ call[c].title[1].raised
            \/ call[c].title[1].called /\ ~Truthy(call[c].title[1].text)
            \/ call[c].user_input = <<>>) =>
            LET words == split(call[c].user_input)
                name == sessions[call[c].session_id].session_name
            IN  /\ Truthy(name)
                /\ name = IF call[c].user_input = <<>> THEN NewConversation
                          ELSE join(SubSeq(words, 1, IF Len(words) < 3
                                                     THEN Len(words) ELSE 3))

\* C22: create_new_session with a generated id that an existing session has
\* raises nothing and returns that id; the name, created_at and messages of
\* the existing session stay as they are, so the session returned is the old
\* one with its history.
CollidingIdStep ==
    \A s \in DOMAIN sessions :
        (last'.op = "create_session" /\ last'.args[1] = s) =>
            /\ last'.result = "ok"
            /\ s \in DOMAIN sessions'
            /\ sessions'[s] = sessions[s]
            /\ {r \in conversations' : r.session_id = s} = RowsOf(s)
            /\ UNCHANGED <<sessions, conversations, seq>>

NewSessionMayBeAnOldOne == [][CollidingIdStep]_vars

\* create_new_session generated the id of a session that has a name and an
\* exchange
SessionIdCollided ==
    /\ last.op = "create_session"
    /\ last.result = "ok"
    /\ ~last.inserted
    /\ pc[Main] = "idle"
    /\ sessions[last.args[1]].session_name = Title
    /\ message_count(last.args[1]) = 2

\* C23: add_message with a role other than user and assistant ends with an
\* error for the caller and its transaction is rolled back: no message row
\* is written, and the session row inserted first does not stay when the
\* session was unknown.
BadRoleStep ==
    \A c \in Connections :
        (/\ txn[c] # <<>>
         /\ txn'[c] = <<>>
         /\ txn[c][1].op = "add_message"
         /\ txn[c][1].args[2] \notin Roles) =>
            /\ last'.op = "add_message"
            /\ last'.args = txn[c][1].args
            /\ last'.result # "ok"
            /\ conversations' = conversations
            /\ DOMAIN sessions' = DOMAIN sessions
            /\ UNCHANGED <<sessions, seq>>

BadRoleIsRolledBack ==
    /\ [](\A r \in conversations : r.role \in Roles)
    /\ [][BadRoleStep]_vars

\* the CHECK refused a message for a session that had no row, and there is
\* no row for it now
BadRoleForUnknownSession ==
    /\ last.op = "add_message"
    /\ last.result = "IntegrityError"
    /\ last.args[2] \notin Roles
    /\ last.args[1] \notin DOMAIN sessions
    /\ \A c \in Connections : txn[c] = <<>>
    /\ conversations # {}

\* C27: with one caller, one send_message at a time and no storage failure,
\* between calls the history of every session has even length and
\* alternates user, assistant from a user turn; a call that succeeded added
\* two messages to its session and a call that failed added none.
HistoryAlternates ==
    pc[Main] \in {"idle", "done"} =>
        /\ \A s \in SessionIds :
              LET history == get_conversation_history(s, <<>>)
              IN  /\ Len(history) % 2 = 0
                  /\ \A i \in 1..Len(history) :
                        history[i].role = IF i % 2 = 1 THEN <<"user">>
                                          ELSE <<"assistant">>
        /\ pc[Main] = "done" =>
              LET sid == call[Main].session_id
                  before == {r \in call[Main].entry[1].conversations :
                                r.session_id = sid}
              IN  /\ before \subseteq RowsOf(sid)
                  /\ Cardinality(RowsOf(sid)) - Cardinality(before)
                        = IF call[Main].ret[1].error THEN 0 ELSE 2

\* a call failed in the middle of the stream, on a session that holds one
\* exchange
FailedCallAfterAnExchange ==
    /\ pc[Main] = "done"
    /\ call[Main].ret[1].error
    /\ call[Main].full_response # <<>>
    /\ Len(get_conversation_history(call[Main].session_id, <<>>)) = 2

\* the call of c has taken the branch that names the session
TookNamingBranch(c) == pc[c] = "name" \/ call[c].title # <<>>

\* C28: of the send_message calls interleaving on one session that was
\* empty, at most one finds a history of two messages and names the session
\* (and it may be none, the session keeping its default name).
AtMostOneCallNames ==
    Cardinality({c \in Callers : TookNamingBranch(c)}) <= 1

\* two exchanges are complete on the session, no call named it, and it has
\* the default name
NoCallNamed ==
    /\ \E c, d \in Callers :
          /\ c # d
          /\ pc[c] = "done" /\ pc[d] = "done"
          /\ ~call[c].ret[1].error /\ ~call[d].ret[1].error
          /\ Len(call[c].stored) = 2 /\ Len(call[d].stored) = 2
    /\ \A c \in Callers : pc[c] \in {"idle", "done"} /\ ~TookNamingBranch(c)
    /\ get_session_info(S1)[1].session_name = S1

\* the turn a stored message becomes in the request
Turn(row) ==
    [role |-> IF row.role = <<"user">> THEN "user" ELSE "model", text |-> row.content]

\* C25: with a limit n >= 1 and more than n messages in the session,
\* get_conversation_history returns the n oldest messages, the prefix of
\* length n of the ordered history; so the request of a send_message on a
\* session of more than 100 messages holds its first 100 turns and no later
\* one.
LimitKeepsTheOldest ==
    /\ \A n \in {1, 3, DefaultLimit} :
          LET all == get_conversation_history(S1, <<>>)
              cut == get_conversation_history(S1, <<n>>)
          IN  Len(all) > n => cut = SubSeq(all, 1, n)
    /\ \A c \in Callers :
          pc[c] # "idle" =>
             LET then == OrderByTimestamp({r \in call[c].entry[1].conversations :
                                              r.session_id = call[c].session_id})
                 contents == call[c].contents
             IN  Len(then) > DefaultLimit =>
                    /\ Len(contents) = DefaultLimit + 1
                    /\ \A i \in 1..DefaultLimit : contents[i] = Turn(then[i])
                    /\ contents[DefaultLimit + 1] =
                          [role |-> "user", text |-> call[c].user_input]

\* a request was built for a session of more than 100 messages
RequestForLongSession ==
    /\ pc[Main] = "stream"
    /\ Cardinality(call[Main].entry[1].conversations) > DefaultLimit
    /\ Len(call[Main].contents) = DefaultLimit + 1
    /\ call[Main].user_input = Hi

\* C21: the request of every send_message is the stored history of the
\* session, each message as one turn in stored order, none dropped, doubled
\* or moved, followed by one user turn with the text, which is not stored yet.
RequestIsTheStoredHistory ==
    \A c \in Callers :
        pc[c] # "idle" =>
           LET then == OrderByTimestamp({r \in call[c].entry[1].conversations :
                                            r.session_id = call[c].session_id})
               contents == call[c].contents
           IN  /\ Len(contents) = Len(then) + 1
               /\ \A i \in 1..Len(then) :
                     i <= Len(contents) => contents[i] = Turn(then[i])
               /\ contents[Len(contents)] = [role |-> "user", text |-> call[c].user_input]

\* C30: a storage failure after the stream ended makes send_message return
\* an error string: when the append of the assistant turn fails, the user
\* turn of the exchange stays stored and no assistant turn follows it; when
\* the update of the name fails, both turns stay stored.
StorageFailureIsReturned ==
    \A c \in {Main} :
        (pc[c] = "done" /\ ~call[c].model_failed /\ last.result = "OperationalError") =>
            /\ call[c].ret[1].error
            /\ \A i \in 1..Len(call[c].stored) :
                  \E r \in RowsOf(call[c].session_id) :
                      /\ r.id = call[c].stored[i].id
                      /\ r.role = <<TurnsToStore(c)[i][1]>>
                      /\ r.content = TurnsToStore(c)[i][2]
            /\ (last.op = "add_message" /\ last.args[2] = <<"assistant">>) =>
                  LET history == get_conversation_history(call[c].session_id, <<>>)
                  IN  /\ Len(call[c].stored) = 1
                      /\ history[Len(history)].role = <<"user">>
                      /\ history[Len(history)].content = call[c].user_input
            /\ (last.op = "update_session_name") =>
                  /\ Len(call[c].stored) = 2
                  /\ call[c].session_id \in DOMAIN call[c].entry[1].sessions =>
                        sessions[call[c].session_id].session_name =
                            call[c].entry[1].sessions[call[c].session_id].session_name

\* the append of the assistant turn failed after the user turn was stored
AssistantAppendFailed ==
    /\ pc[Main] = "done"
    /\ last.op = "add_message"
    /\ last.args[2] = <<"assistant">>
    /\ last.result = "OperationalError"
    /\ ~call[Main].model_failed
    /\ Len(call[Main].stored) = 1
    /\ call[Main].ret[1].error

NewestThree ==
    LET history == get_conversation_history(current_session_id, <<>>)
        n == Len(history)
        newest == SubSeq(history, IF n > 3 THEN n - 2 ELSE 1, n)
    IN  [i \in 1..Len(newest) |->
            [role |-> newest[i].role,
             content |-> IF Len(newest[i].content) > PreviewWidth
                         THEN SubSeq(newest[i].content, 1, PreviewWidth) \o Ellipsis
                         ELSE newest[i].content]]

\* C24: after a successful switch the recent conversation shown is the
\* three newest messages of the session, however many it holds.
PreviewShowsTheNewest ==
    (last.op = "switch_session" /\ last.result = "True") =>
        recent_history = NewestThree

\* C26 (as the code has it): current_session_id is always an existing
\* session; a switch to an unknown id returns False and changes nothing, a
\* switch to a known id makes it current; clear_current_session removes the
\* messages of the old session and its row, and leaves current_session_id on
\* the id create_new_session returned, which is a new empty session unless
\* that id is the id of another session that exists.
CurrentSessionExists ==
    current_session_id # None => current_session_id \in DOMAIN sessions

SwitchStep ==
    (last' # last /\ last'.op = "switch_session") =>
        /\ UNCHANGED <<sessions, conversations>>
        /\ IF last'.args[1] \in DOMAIN sessions
           THEN last'.result = "True" /\ current_session_id' = last'.args[1]
           ELSE last'.result = "False" /\ UNCHANGED current_session_id

ClearStepRemoves ==
    (last' # last /\ last'.op = "clear_current_session") =>
        /\ last'.args = <<current_session_id, current_session_id'>>
        /\ \A r \in conversations' :
              r.session_id # current_session_id /\ r \in conversations
        /\ \A r \in conversations :
              r.session_id # current_session_id => r \in conversations'
        /\ current_session_id' # current_session_id =>
              current_session_id \notin DOMAIN sessions'
        /\ current_session_id' \in DOMAIN sessions'

NewEmptySession ==
    /\ last'.inserted
    /\ sessions'[current_session_id'] =
          [session_name |-> None, created_at |-> now, updated_at |-> now]
    /\ \A r \in conversations' : r.session_id # current_session_id'

ClearStepUnlessCollision ==
    (last' # last /\ last'.op = "clear_current_session"
       /\ current_session_id' \notin DOMAIN sessions \ {current_session_id}) =>
        NewEmptySession

=============================================================================
